---------------------------- MODULE Spec2Model ----------------------------
(***************************************************************************)
(* Model of the irc-downloader download engine: the download registry of   *)
(* every connection (src/src/server.rs), the control loop and the spawned  *)
(* offer / transfer tasks and retry timers (src/src/main.rs), and the DCC  *)
(* transfer executor (src/src/dcc.rs).                                     *)
(*                                                                         *)
(* Options are sequences: << >> is None, <<v>> is Some(v).  Nicks are      *)
(* sequences of ASCII byte codes, IPv4 addresses are 4-tuples of octets.   *)
(***************************************************************************)
EXTENDS Integers, Sequences, FiniteSets, TLC

\* ------------------------------------------------------------------ bounds
MaxDownloads == 2      \* download requests accepted (ids 0 .. MaxDownloads-1)
MaxTasks == 2          \* offer tasks the control loop spawns (SpecTransfer)
MaxSoloTasks == 1      \* offer tasks the control loop spawns (Spec, SpecRetry)
MaxTimers == 1         \* retry timers the control loop spawns
MaxBytes == 2          \* payload bytes a peer sends on one stream
MaxTime == 70          \* last instant of the clock, in seconds
TickSeconds == 70      \* granularity of the clock, in seconds

\* ------------------------------------------------------- program constants
RetryDelaySecs == 70   \* Duration::from_secs(70)
U32Bytes == 4          \* size_of::<u32>()
U16Bytes == 2          \* size_of::<u16>()
USizeBytes == 8        \* size_of::<usize>() on a 64-bit target

None == << >>
Some(v) == <<v>>
IsSome(o) == Len(o) = 1
Unwrap(o) == o[1]

Servers == {"net1", "net2"}
FileNames == {"f1", "f2"}

\* Nicks as byte strings: "B{", "b[", "b^", "B~", "b"
NickBotCurly == <<66, 123>>
NickBotSquare == <<98, 91>>
NickCaret == <<98, 94>>
NickTilde == <<66, 126>>
NickShort == <<98>>
EventNicks == {NickBotSquare, NickCaret, NickTilde, NickShort}

Commands == {"xdcc send #1", "xdcc send #2"}

\* the local public address and the address the peers declare
MyIp == <<10, 0, 0, 7>>
PeerIp == <<73, 25, 176, 14>>
OtherIp == <<73, 25, 176, 15>>
EphemeralPort == 49152

VARIABLES
    downloads,    \* ServerConnection.downloads of every connection: id -> DownloadItem
    download_id,  \* App.download_id
    tasks,        \* the offer / transfer tasks spawned by the control loop
    timers,       \* the retry timer tasks spawned by the 531 handler
    sent,         \* PRIVMSGs handed to client.send_privmsg that were accepted
    now,          \* the clock (seconds since the connections were made)
    connUp,       \* per connection: its message stream is still in the StreamMap
    running,      \* main's while-loop (and with it the runtime) is still running
    lastBytes     \* history: the byte count of the last Progress status recorded per id

vars == <<downloads, download_id, tasks, timers, sent, now, connUp, running, lastBytes>>


\* ------------------------------------------------- unsigned machine integers
\* A uN value is the sequence of its N/8 base-256 digits, least significant
\* first; decimal texts are sequences of digits 0..9.
Zeros(n) == [i \in 1..n |-> 0]

\* v * 10 + d within Len(v) bytes: the result and the carry out of the top byte
RECURSIVE MulAdd10(_, _, _)
MulAdd10(v, i, carry) ==
    IF i > Len(v) THEN [val |-> v, carry |-> carry]
    ELSE LET x == v[i] * 10 + carry
         IN MulAdd10([v EXCEPT ![i] = x % 256], i + 1, x \div 256)

RECURSIVE ParseFrom(_, _, _)
ParseFrom(digits, k, acc) ==
    IF k > Len(digits) THEN Some(acc)
    ELSE LET r == MulAdd10(acc, 1, digits[k])
         IN IF r.carry # 0 THEN None ELSE ParseFrom(digits, k + 1, r.val)

\* str::parse::<uN>() of a digit text, n = N/8: None on overflow or an empty text
parse_uint(digits, n) == IF Len(digits) = 0 THEN None ELSE ParseFrom(digits, 1, Zeros(n))

\* v divided by 10: quotient and remainder
RECURSIVE DivMod10(_, _, _)
DivMod10(v, i, rem) ==
    IF i = 0 THEN [quot |-> v, rem |-> rem]
    ELSE LET x == rem * 256 + v[i]
         IN DivMod10([v EXCEPT ![i] = x \div 10], i - 1, x % 10)

\* uN::to_string(): the decimal digits, no leading zeros ("0" for zero)
RECURSIVE to_string(_)
to_string(v) ==
    LET r == DivMod10(v, Len(v), 0)
    IN IF r.quot = Zeros(Len(v)) THEN <<r.rem>> ELSE Append(to_string(r.quot), r.rem)

\* uN::to_be_bytes(): most significant byte first
to_be_bytes(v) == [i \in 1..Len(v) |-> v[Len(v) + 1 - i]]

\* uN::from_be_bytes()
from_be_bytes(bytes) == [i \in 1..Len(bytes) |-> bytes[Len(bytes) + 1 - i]]

\* a u16 as a number
U16Value(v) == v[1] + 256 * v[2]

\* a plausible slip: the octets taken least significant byte first
Ipv4FromU32LittleEndian(v) == v

\* Ipv4Addr::from(u32) and u32::from(Ipv4Addr): the octets are the big-endian bytes
Ipv4FromU32(v) == to_be_bytes(v)
U32FromIpv4(ip) == from_be_bytes(ip)

\* ------------------------------------------------------------- IRC casing
\* u8::to_ascii_lowercase
to_ascii_lowercase(b) == IF b >= 65 /\ b <= 90 THEN b + 32 ELSE b

\* u8::eq_ignore_ascii_case
eq_ignore_ascii_case(a, b) == to_ascii_lowercase(a) = to_ascii_lowercase(b)

\* a plausible slip: "differs only in bit 0x20" taken for case equality
eq_ignore_irc_case_bit5(a, b) ==
    /\ Len(a) = Len(b)
    /\ \A i \in 1..Len(a) : a[i] = b[i] \/ a[i] - b[i] = 32 \/ b[i] - a[i] = 32

\* impl IrcCase for [u8]
eq_ignore_irc_case(a, b) ==
    /\ Len(a) = Len(b)
    /\ \A i \in 1..Len(a) :
          \/ eq_ignore_ascii_case(a[i], b[i])
          \/ <<a[i], b[i]>> \in {<<123, 91>>, <<91, 123>>, <<125, 93>>, <<93, 125>>,
                                 <<92, 124>>, <<124, 92>>}

\* ------------------------------------------------------- download statuses
Requested == [kind |-> "Requested"]
SenderAbsent == [kind |-> "SenderAbsent"]
Connecting == [kind |-> "Connecting"]
Delayed(until) == [kind |-> "Delayed", until |-> until]
Failed(reason) == [kind |-> "Failed", reason |-> reason]
Progress(transferred, file_size, abort_handle) ==
    [kind |-> "Progress", transferred |-> transferred, file_size |-> file_size,
     abort_handle |-> abort_handle]

DownloadItem(id, server, file_name, nick, status, request_command) ==
    [id |-> id, server |-> server, file_name |-> file_name, nick |-> nick,
     status |-> status, request_command |-> request_command]

Remove(reg, id) == [i \in DOMAIN reg \ {id} |-> reg[i]]
Insert(reg, id, item) == [i \in DOMAIN reg \cup {id} |-> IF i = id THEN item ELSE reg[i]]


\* --------------------------------------------------------------- dcc.rs
\* "DCC SEND" and spellings of it
MarkerUpper == <<68, 67, 67, 32, 83, 69, 78, 68>>
MarkerLower == <<100, 99, 99, 32, 115, 101, 110, 100>>
MarkerMixed == <<68, 99, 99, 32, 83, 101, 110, 100>>
MarkerOther == <<83, 69, 78, 68>>

\* A chat text, as the fields REX_DCC_SEND looks for: the marker and the
\* space-separated tokens after it (a token that is present is Some(text)).
ChatText(marker, filename, address, portText, filesize, id) ==
    [marker |-> marker, filename |-> filename, address |-> address, port |-> portText,
     filesize |-> filesize, id |-> id]

\* REX_DCC_SEND.captures: (?i) marker, then filename, address and port
RexDccSendMatches(message) ==
    /\ [i \in 1..Len(message.marker) |-> to_ascii_lowercase(message.marker[i])] = MarkerLower
    /\ IsSome(message.filename)
    /\ IsSome(message.address)
    /\ IsSome(message.port)

\* DccSend::from_str: None, or Some(DccSend)
from_str(message) ==
    IF ~RexDccSendMatches(message) THEN None
    ELSE LET address == parse_uint(Unwrap(message.address), U32Bytes)
             portNo == parse_uint(Unwrap(message.port), U16Bytes)
             file_size == IF IsSome(message.filesize)
                          THEN parse_uint(Unwrap(message.filesize), USizeBytes)
                          ELSE None
             id == IF IsSome(message.id)
                   THEN parse_uint(Unwrap(message.id), USizeBytes)
                   ELSE None
         IN IF ~IsSome(address) THEN None
            ELSE IF ~IsSome(portNo) THEN None
            ELSE Some([file_name |-> Unwrap(message.filename),
                       address |-> [ip |-> Ipv4FromU32(Unwrap(address)),
                                    port |-> U16Value(Unwrap(portNo))],
                       file_size |-> file_size,
                       id |-> id])

\* a plausible slip: an offer taken for passive when it carries a transfer id
is_passive_by_id(dcc_send) == IsSome(dcc_send.id)

\* DccSend::is_passive
is_passive(dcc_send) == dcc_send.address.port = 0

\* the reply offer of a passive transfer: the format! arguments in order
ReplyOffer(dcc_send, myip, boundPort) ==
    <<MarkerUpper, dcc_send.file_name, to_string(U32FromIpv4(myip)), boundPort,
      IF IsSome(dcc_send.file_size) THEN to_string(Unwrap(dcc_send.file_size)) ELSE << >>,
      IF IsSome(dcc_send.id) THEN to_string(Unwrap(dcc_send.id)) ELSE << >> >>

\* ------------------------------------------------------------- server.rs
\* a plausible slip: the delay counted from now instead of from connected_at
mark_downloads_delayed_from_now(reg, connected_at) ==
    [i \in DOMAIN reg |->
        IF reg[i].status = Requested
        THEN [reg[i] EXCEPT !.status = Delayed(now + RetryDelaySecs)]
        ELSE reg[i]]

\* ServerConnection::mark_downloads_delayed: the registry afterwards
mark_downloads_delayed(reg, connected_at) ==
    LET until == connected_at + RetryDelaySecs
    IN [i \in DOMAIN reg |->
          IF reg[i].status = Requested
          THEN [reg[i] EXCEPT !.status = Delayed(until)]
          ELSE reg[i]]

\* the Instant mark_downloads_delayed returns
retry_at(connected_at) == connected_at + RetryDelaySecs

\* ServerConnection::handle_sender_gone
handle_sender_gone(reg, nick) ==
    [i \in DOMAIN reg |->
        IF eq_ignore_irc_case(reg[i].nick, nick)
        THEN [reg[i] EXCEPT !.status = SenderAbsent]
        ELSE reg[i]]

\* ServerConnection::abort_download: the registry afterwards, and the abort
\* handles it triggers
ServerAbortRegistry(reg, id) == Remove(reg, id)

ServerAbortHandles(reg, id) ==
    IF id \in DOMAIN reg /\ reg[id].status.kind = "Progress"
    THEN {reg[id].status.abort_handle}
    ELSE {}

\* ServerConnection::completed
completed(reg, id) == Remove(reg, id)


\* ------------------------------------------------------------------ inputs
\* decimal texts: 1226420238 = 73.25.176.14, 1226420239 = 73.25.176.15
AddrPeer == <<1, 2, 2, 6, 4, 2, 0, 2, 3, 8>>
Size3498348389 == <<3, 4, 9, 8, 3, 4, 8, 3, 8, 9>>

OfferTexts ==
    { ChatText(MarkerUpper, Some("f1"), Some(AddrPeer), Some(<<0>>), Some(Size3498348389), Some(<<2, 2>>)),
      ChatText(MarkerLower, Some("f1"), Some(AddrPeer), Some(<<4, 0, 0, 0>>), None, None),
      ChatText(MarkerMixed, Some("f2"), Some(AddrPeer), Some(<<4, 0, 0, 0>>), Some(<<2>>), None),
      ChatText(MarkerUpper, Some("f2"), Some(AddrPeer), Some(<<0>>), Some(<<0>>), None),
      ChatText(MarkerOther, Some("f1"), Some(AddrPeer), Some(<<0>>), None, None) }

\* decimal texts at and just above the limits of u32, u16 and usize
Text4294967295 == <<4, 2, 9, 4, 9, 6, 7, 2, 9, 5>>
Text4294967296 == <<4, 2, 9, 4, 9, 6, 7, 2, 9, 6>>
Text65535 == <<6, 5, 5, 3, 5>>
Text65536 == <<6, 5, 5, 3, 6>>
Text18446744073709551615 == <<1, 8, 4, 4, 6, 7, 4, 4, 0, 7, 3, 7, 0, 9, 5, 5, 1, 6, 1, 5>>
Text18446744073709551616 == <<1, 8, 4, 4, 6, 7, 4, 4, 0, 7, 3, 7, 0, 9, 5, 5, 1, 6, 1, 6>>

\* chat texts for the offer parser: the example of the tests, texts with a
\* field missing, and texts at and above the limits of the integer fields
ParseTexts ==
    { ChatText(MarkerUpper, Some("f1"), Some(AddrPeer), Some(<<0>>), Some(Size3498348389), Some(<<2, 2>>)),
      ChatText(MarkerLower, Some("f1"), Some(<<0>> \o AddrPeer), Some(<<0, 0>>), None, None),
      ChatText(MarkerMixed, Some("f2"), Some(Text4294967295), Some(Text65535), Some(<<0>>), None),
      ChatText(MarkerUpper, Some("f2"), Some(Text4294967296), Some(<<0>>), None, None),
      ChatText(MarkerUpper, Some("f2"), Some(AddrPeer), Some(Text65536), None, None),
      ChatText(MarkerUpper, Some("f1"), Some(<<0>>), Some(<<2, 5, 6>>),
               Some(Text18446744073709551615), Some(Text18446744073709551616)),
      ChatText(MarkerUpper, Some("f2"), Some(<<2, 5, 6>>), Some(<<4, 0, 0, 0>>),
               Some(Text18446744073709551616), Some(<<2, 5, 6>>)),
      ChatText(MarkerUpper, None, None, None, None, None),
      ChatText(MarkerUpper, Some("f1"), None, None, None, None),
      ChatText(MarkerUpper, Some("f1"), Some(AddrPeer), None, None, None),
      ChatText(MarkerOther, Some("f1"), Some(AddrPeer), Some(<<0>>), Some(Size3498348389), Some(<<2, 2>>)) }

\* DccSend::from_str over the chat texts of the model, computed once
ParsedOffer == [m \in OfferTexts \cup ParseTexts |-> from_str(m)]

Requests ==
    { [file_name |-> "f1", nick |-> NickBotCurly, command |-> "xdcc send #1"],
      [file_name |-> "f2", nick |-> NickCaret, command |-> "xdcc send #2"] }

Prefixes == {None, Some(NickBotCurly)}
Channels == {"#chan", "me"}
PeerIps == {PeerIp, OtherIp}

\* ------------------------------------------------------ state after start
\* ServerConnection::new: connected_at = Instant::now()
connected_at == [s \in Servers |-> 0]

\* Configuration.port: the listening port of passive transfers (0: any free port)
port == 5000

Init ==
    /\ downloads = [s \in Servers |-> << >>]
    /\ download_id = 0
    /\ tasks = << >>
    /\ timers = << >>
    /\ sent = {}
    /\ now = 0
    /\ connUp = [s \in Servers |-> TRUE]
    /\ running = TRUE
    /\ lastBytes = [i \in 0..(MaxDownloads - 1) |-> 0]

\* client.send_privmsg(to, text) accepted by the connection's outgoing channel;
\* kind / id / by / at / n say who sent it, when, and which of its sends it was
Send(log, server, to, text, kind, id, by) ==
    log \cup {[server |-> server, to |-> to, text |-> text, kind |-> kind, id |-> id,
               by |-> by, at |-> now,
               n |-> 1 + Cardinality({m \in log : m.kind = kind /\ m.id = id /\ m.by = by})]}

\* --------------------------------------------------- control-plane requests
\* a plausible slip: the id taken from the number of downloads the connection holds
request_download_by_len(server, file_name, nick, command) ==
    /\ running
    /\ download_id < MaxDownloads
    /\ IF server \notin Servers
       THEN UNCHANGED vars
       ELSE LET id == Cardinality(DOMAIN downloads[server])
            IN /\ download_id' = download_id + 1
               /\ downloads' = [downloads EXCEPT ![server] =
                     Insert(@, id, DownloadItem(id, server, file_name, nick, Requested, command))]
               /\ sent' = IF connUp[server]
                          THEN Send(sent, server, nick, command, "request", id, 0)
                          ELSE sent
               /\ UNCHANGED <<tasks, timers, now, connUp, running, lastBytes>>

\* request_download (POST /download)
request_download(server, file_name, nick, command) ==
    /\ running
    /\ download_id < MaxDownloads
    /\ IF server \notin Servers
       THEN UNCHANGED vars
       ELSE LET id == download_id
            IN /\ download_id' = download_id + 1
               /\ downloads' = [downloads EXCEPT ![server] =
                     Insert(@, id, DownloadItem(id, server, file_name, nick, Requested, command))]
               /\ sent' = IF connUp[server]
                          THEN Send(sent, server, nick, command, "request", id, 0)
                          ELSE sent
               /\ UNCHANGED <<tasks, timers, now, connUp, running, lastBytes>>

\* a plausible slip: the executor found through its binding, not through the
\* handle kept in the registry
abort_download_by_binding(dl, tk, id) ==
    [downloads |-> [s \in Servers |-> ServerAbortRegistry(dl[s], id)],
     tasks |-> [k \in DOMAIN tk |->
                  IF tk[k].download_id = Some(id)
                  THEN [tk[k] EXCEPT !.aborted = TRUE]
                  ELSE tk[k]]]

\* abort_download (DELETE /download/:id) as a function of registries and tasks:
\* every connection's abort_download(id), and the abort handles they trigger
abort_download(dl, tk, id) ==
    LET handles == UNION {ServerAbortHandles(dl[s], id) : s \in Servers}
    IN [downloads |-> [s \in Servers |-> ServerAbortRegistry(dl[s], id)],
        tasks |-> [k \in DOMAIN tk |->
                     IF k \in handles THEN [tk[k] EXCEPT !.aborted = TRUE] ELSE tk[k]]]

AbortDownload(id) ==
    /\ running
    /\ downloads' = abort_download(downloads, tasks, id).downloads
    /\ tasks' = abort_download(downloads, tasks, id).tasks
    /\ UNCHANGED <<download_id, timers, sent, now, connUp, running, lastBytes>>

\* ------------------------------------------------------------ control loop
NewTask(server, nick, dcc_send) ==
    [server |-> server, nick |-> nick, dcc_send |-> dcc_send, pc |-> "spawned",
     download_id |-> None, aborted |-> FALSE, transferred |-> 0, unseen |-> FALSE,
     replies |-> 0, peer |-> None, ack |-> None]

\* Command::PRIVMSG(channel, msg): spawns the offer task when the prefix is a
\* nickname and the text parses as an offer
RecvPrivmsg(server, channel, prefix, msg) ==
    /\ running
    /\ connUp[server]
    /\ IF IsSome(prefix) /\ IsSome(ParsedOffer[msg])
       THEN tasks' = Append(tasks, NewTask(server, Unwrap(prefix), Unwrap(ParsedOffer[msg])))
       ELSE UNCHANGED tasks
    /\ UNCHANGED <<downloads, download_id, timers, sent, now, connUp, running, lastBytes>>

\* Command::Response(ERR_NOSUCHNICK, args)
RecvNoSuchNick(server, nick) ==
    /\ running
    /\ connUp[server]
    /\ downloads' = [downloads EXCEPT ![server] = handle_sender_gone(@, nick)]
    /\ UNCHANGED <<download_id, tasks, timers, sent, now, connUp, running, lastBytes>>

\* Command::Raw("531", _): marks the downloads and spawns the retry timer
\* (marked: history, the downloads this event moved to Delayed)
RecvThrottle(server) ==
    /\ running
    /\ connUp[server]
    /\ downloads' = [downloads EXCEPT ![server] =
                        mark_downloads_delayed(@, connected_at[server])]
    /\ timers' = Append(timers, [server |-> server,
                                 retry_at |-> retry_at(connected_at[server]),
                                 pc |-> "sleeping",
                                 marked |-> {i \in DOMAIN downloads[server] :
                                               downloads[server][i].status = Requested}])
    /\ UNCHANGED <<download_id, tasks, sent, now, connUp, running, lastBytes>>

\* streams.next() drops a connection's stream that has ended; when the last one
\* has ended the loop, main and the runtime end
StreamEnd(server) ==
    /\ running
    /\ connUp[server]
    /\ connUp' = [connUp EXCEPT ![server] = FALSE]
    /\ running' = (\E s \in Servers \ {server} : connUp[s])
    /\ UNCHANGED <<downloads, download_id, tasks, timers, sent, now, lastBytes>>

\* let message = message?: a stream error ends main and the runtime
StreamError(server) ==
    /\ running
    /\ connUp[server]
    /\ running' = FALSE
    /\ UNCHANGED <<downloads, download_id, tasks, timers, sent, now, connUp, lastBytes>>

\* ------------------------------------------------------------ retry timer
\* a plausible slip: the timer resends the downloads of every connection
RetrySendsAllServers(log, k) ==
    IF connUp[timers[k].server]
    THEN log \cup UNION {{[server |-> s, to |-> downloads[s][i].nick,
                           text |-> downloads[s][i].request_command,
                           kind |-> "retry", id |-> i, by |-> k, at |-> now, n |-> 1]
                          : i \in DOMAIN downloads[s]} : s \in Servers}
    ELSE log

\* the requests the timer's loop hands to send_privmsg: one per download of the
\* connection; the first send that fails ends the task
RetrySends(log, k) ==
    LET server == timers[k].server
        reg == downloads[server]
    IN IF connUp[server]
       THEN log \cup {[server |-> server, to |-> reg[i].nick, text |-> reg[i].request_command,
                       kind |-> "retry", id |-> i, by |-> k, at |-> now, n |-> 1]
                      : i \in DOMAIN reg}
       ELSE log

TimerFire(k) ==
    /\ running
    /\ timers[k].pc = "sleeping"
    /\ now >= timers[k].retry_at
    /\ sent' = RetrySends(sent, k)
    /\ timers' = [timers EXCEPT ![k].pc =
                     IF connUp[timers[k].server] \/ DOMAIN downloads[timers[k].server] = {}
                     THEN "done" ELSE "failed"]
    /\ UNCHANGED <<downloads, download_id, tasks, now, connUp, running, lastBytes>>

Tick ==
    /\ running
    /\ now + TickSeconds <= MaxTime
    /\ now' = now + TickSeconds
    /\ UNCHANGED <<downloads, download_id, tasks, timers, sent, connUp, running, lastBytes>>


\* ------------------------------------------------- offer / transfer task
\* the task is inside its select loop, polling the Abortable download future
LivePcs == {"negotiate", "accepting", "connecting", "connected", "streaming"}
Live(t) == tasks[t].pc \in LivePcs

\* the download future may be polled further: the task has not been aborted
Polls(t) == Live(t) /\ ~tasks[t].aborted

\* a plausible slip: the failed download looked up by file name, as the offer is
FailedBranchByName(dl, server, id, reason) ==
    IF id \in DOMAIN dl[server]
    THEN [dl EXCEPT ![server] =
            [i \in DOMAIN @ |->
                IF @[i].file_name = @[id].file_name
                THEN [@[i] EXCEPT !.status = Failed(reason)]
                ELSE @[i]]]
    ELSE dl

\* the Ok(Err(y)) branch of the select loop: the registries afterwards
\* (expect("File name mismatch") panics when the entry is gone)
FailedBranch(dl, server, id, reason) ==
    IF id \in DOMAIN dl[server]
    THEN [dl EXCEPT ![server][id].status = Failed(reason)]
    ELSE dl

\* the download future returns Err(reason) and the select loop handles it;
\* peer is the address of the connection the future held, if any
FailWith(t, reason, peer) ==
    LET task == tasks[t]
        id == Unwrap(task.download_id)
    IN /\ downloads' = FailedBranch(downloads, task.server, id, reason)
       /\ tasks' = [tasks EXCEPT ![t].pc =
                       IF id \in DOMAIN downloads[task.server] THEN "failed" ELSE "panicked",
                                 ![t].peer = peer]
       /\ UNCHANGED <<download_id, timers, sent, now, connUp, running, lastBytes>>

Fail(t, reason) == FailWith(t, reason, tasks[t].peer)

\* the guard of the offer task: a download that is already Connecting is left alone
AlreadyRunning(status) == status = Connecting

\* a plausible slip: the download looked up by the offering nick instead of the file name
OfferTaskRunByNick(t) ==
    /\ running
    /\ tasks[t].pc = "spawned"
    /\ LET task == tasks[t]
           reg == downloads[task.server]
           found == {i \in DOMAIN reg : eq_ignore_irc_case(reg[i].nick, task.nick)}
       IN IF found = {}
          THEN /\ tasks' = [tasks EXCEPT ![t].pc = "panicked"]
               /\ UNCHANGED downloads
          ELSE \E i \in found :
                  IF AlreadyRunning(reg[i].status)
                  THEN /\ tasks' = [tasks EXCEPT ![t].pc = "returned"]
                       /\ UNCHANGED downloads
                  ELSE /\ downloads' = [downloads EXCEPT ![task.server][i].status = Connecting]
                       /\ tasks' = [tasks EXCEPT ![t].pc = "negotiate",
                                                 ![t].download_id = Some(i)]
    /\ UNCHANGED <<download_id, timers, sent, now, connUp, running, lastBytes>>

\* a plausible slip: an offer that names no requested file is given to any
\* download of the connection
OfferTaskRunOrAny(t) ==
    /\ running
    /\ tasks[t].pc = "spawned"
    /\ LET task == tasks[t]
           reg == downloads[task.server]
           named == {i \in DOMAIN reg : reg[i].file_name = task.dcc_send.file_name}
           found == IF named = {} THEN DOMAIN reg ELSE named
       IN IF found = {}
          THEN /\ tasks' = [tasks EXCEPT ![t].pc = "panicked"]
               /\ UNCHANGED downloads
          ELSE \E i \in found :
                  IF AlreadyRunning(reg[i].status)
                  THEN /\ tasks' = [tasks EXCEPT ![t].pc = "returned"]
                       /\ UNCHANGED downloads
                  ELSE /\ downloads' = [downloads EXCEPT ![task.server][i].status = Connecting]
                       /\ tasks' = [tasks EXCEPT ![t].pc = "negotiate",
                                                 ![t].download_id = Some(i)]
    /\ UNCHANGED <<download_id, timers, sent, now, connUp, running, lastBytes>>

\* the spawned task's first block: find the download by file name, guard, mark
\* it Connecting (iter_mut().find takes whichever matching entry it meets first)
OfferTaskRun(t) ==
    /\ running
    /\ tasks[t].pc = "spawned"
    /\ LET task == tasks[t]
           reg == downloads[task.server]
           found == {i \in DOMAIN reg : reg[i].file_name = task.dcc_send.file_name}
       IN IF found = {}
          THEN /\ tasks' = [tasks EXCEPT ![t].pc = "panicked"]
               /\ UNCHANGED downloads
          ELSE \E i \in found :
                  IF AlreadyRunning(reg[i].status)
                  THEN /\ tasks' = [tasks EXCEPT ![t].pc = "returned"]
                       /\ UNCHANGED downloads
                  ELSE /\ downloads' = [downloads EXCEPT ![task.server][i].status = Connecting]
                       /\ tasks' = [tasks EXCEPT ![t].pc = "negotiate",
                                                 ![t].download_id = Some(i)]
    /\ UNCHANGED <<download_id, timers, sent, now, connUp, running, lastBytes>>

\* the port TcpListener::bind ends up on: the configured one, or one the system picks
BoundPort(t) == IF port = 0 THEN EphemeralPort + t ELSE port

Listening(p) == \E u \in DOMAIN tasks : tasks[u].pc = "accepting" /\ BoundPort(u) = p

\* DccSend::download up to its first wait: passive binds, sends the reply offer
\* and waits for a connection; active starts connecting
ExecStart(t) ==
    /\ running
    /\ tasks[t].pc = "negotiate"
    /\ Polls(t)
    /\ LET task == tasks[t]
       IN IF is_passive(task.dcc_send)
          THEN IF Listening(BoundPort(t))
               THEN Fail(t, "Address already in use")
               ELSE IF ~connUp[task.server]
               THEN Fail(t, "channel closed")
               ELSE /\ sent' = Send(sent, task.server, task.nick,
                                    ReplyOffer(task.dcc_send, MyIp, BoundPort(t)),
                                    "reply", Unwrap(task.download_id), t)
                    /\ tasks' = [tasks EXCEPT ![t].pc = "accepting",
                                              ![t].replies = @ + 1]
                    /\ UNCHANGED <<downloads, download_id, timers, now, connUp, running,
                                   lastBytes>>
          ELSE /\ tasks' = [tasks EXCEPT ![t].pc = "connecting"]
               /\ UNCHANGED <<downloads, download_id, timers, sent, now, connUp, running,
                              lastBytes>>

\* a plausible slip: whoever connects first is taken for the peer
PeerAcceptedAny(dcc_send, ip) == TRUE

\* the check of the accepted peer: its address is the offer's
PeerAccepted(dcc_send, ip) == ip = dcc_send.address.ip

\* listener.accept() returns a connection from ip
ExecAccept(t, ip) ==
    /\ running
    /\ tasks[t].pc = "accepting"
    /\ Polls(t)
    /\ IF PeerAccepted(tasks[t].dcc_send, ip)
       THEN /\ tasks' = [tasks EXCEPT ![t].pc = "connected", ![t].peer = Some(ip)]
            /\ UNCHANGED <<downloads, download_id, timers, sent, now, connUp, running,
                           lastBytes>>
       ELSE FailWith(t, "IP mismatch on connected client", Some(ip))

\* TcpStream::connect(self.address) succeeds
ExecConnect(t) ==
    /\ running
    /\ tasks[t].pc = "connecting"
    /\ Polls(t)
    /\ tasks' = [tasks EXCEPT ![t].pc = "connected",
                              ![t].peer = Some(tasks[t].dcc_send.address.ip)]
    /\ UNCHANGED <<downloads, download_id, timers, sent, now, connUp, running, lastBytes>>

\* the acknowledgment written to the peer once the stream and the file exist
Acknowledgment(dcc_send) == to_be_bytes(Unwrap(dcc_send.file_size))

\* the destination file is created and the acknowledgment written
\* (file_size.unwrap() panics on an offer without a size)
ExecHandshake(t) ==
    /\ running
    /\ tasks[t].pc = "connected"
    /\ Polls(t)
    /\ tasks' = IF IsSome(tasks[t].dcc_send.file_size)
                THEN [tasks EXCEPT ![t].pc = "streaming",
                                   ![t].ack = Some(Acknowledgment(tasks[t].dcc_send))]
                ELSE [tasks EXCEPT ![t].pc = "panicked"]
    /\ UNCHANGED <<downloads, download_id, timers, sent, now, connUp, running, lastBytes>>

\* one pass of the read loop with n > 0 bytes: count them, write them to the
\* file, publish the count
ExecRead(t, n) ==
    /\ running
    /\ tasks[t].pc = "streaming"
    /\ Polls(t)
    /\ tasks[t].transferred + n <= MaxBytes
    /\ tasks' = [tasks EXCEPT ![t].transferred = @ + n, ![t].unseen = TRUE]
    /\ UNCHANGED <<downloads, download_id, timers, sent, now, connUp, running, lastBytes>>

\* try_read returns Ok(0): flush, Ok(()), and the Ok(Ok(_)) branch removes the entry
ExecEof(t) ==
    /\ running
    /\ tasks[t].pc = "streaming"
    /\ Polls(t)
    /\ downloads' = [downloads EXCEPT ![tasks[t].server] =
                        completed(@, Unwrap(tasks[t].download_id))]
    /\ tasks' = [tasks EXCEPT ![t].pc = "completed"]
    /\ UNCHANGED <<download_id, timers, sent, now, connUp, running, lastBytes>>

\* the errors the download future can return while it waits at pc
FailReasons(pc) ==
    CASE pc = "accepting" -> {"deadline has elapsed"}
      [] pc = "connecting" -> {"deadline has elapsed"}
      [] pc = "connected" -> {"Permission denied"}
      [] pc = "streaming" -> {"Connection reset by peer"}
      [] OTHER -> {}

ExecFail(t, reason) ==
    /\ running
    /\ Polls(t)
    /\ reason \in FailReasons(tasks[t].pc)
    /\ Fail(t, reason)

\* the receiver.changed() branch: record Progress with the latest count
\* (NonZeroUsize::new(0).unwrap() and expect("File name mismatch") panic)
ExecProgress(t) ==
    /\ running
    /\ Live(t)
    /\ tasks[t].unseen
    /\ LET task == tasks[t]
           id == Unwrap(task.download_id)
           fs == task.dcc_send.file_size
       IN IF (IsSome(fs) /\ Unwrap(fs) = Zeros(USizeBytes)) \/ id \notin DOMAIN downloads[task.server]
          THEN /\ tasks' = [tasks EXCEPT ![t].pc = "panicked"]
               /\ UNCHANGED <<downloads, lastBytes>>
          ELSE /\ downloads' = [downloads EXCEPT ![task.server][id].status =
                                   Progress(task.transferred, fs, t)]
               /\ lastBytes' = [lastBytes EXCEPT ![id] = task.transferred]
               /\ tasks' = [tasks EXCEPT ![t].unseen = FALSE]
    /\ UNCHANGED <<download_id, timers, sent, now, connUp, running>>

\* the Abortable future returns Err(Aborted)
ExecAborted(t) ==
    /\ running
    /\ Live(t)
    /\ tasks[t].aborted
    /\ tasks' = [tasks EXCEPT ![t].pc = "aborted"]
    /\ UNCHANGED <<downloads, download_id, timers, sent, now, connUp, running, lastBytes>>


\* ---------------------------------------------------------- specifications
\* The engine on both connections, one offer task at a time.
Next ==
    \/ \E server \in Servers \cup {"net9"}, r \in Requests :
          request_download(server, r.file_name, r.nick, r.command)
    \/ \E id \in 0..MaxDownloads : AbortDownload(id)
    \/ \E server \in Servers, channel \in Channels, prefix \in Prefixes, msg \in OfferTexts :
          Len(tasks) < MaxSoloTasks /\ RecvPrivmsg(server, channel, prefix, msg)
    \/ \E server \in Servers, nick \in EventNicks : RecvNoSuchNick(server, nick)
    \/ \E server \in Servers : StreamEnd(server)
    \/ \E server \in Servers : StreamError(server)
    \/ \E t \in DOMAIN tasks : OfferTaskRun(t)
    \/ \E t \in DOMAIN tasks : ExecStart(t)
    \/ \E t \in DOMAIN tasks, ip \in PeerIps : ExecAccept(t, ip)
    \/ \E t \in DOMAIN tasks : ExecConnect(t)
    \/ \E t \in DOMAIN tasks : ExecHandshake(t)
    \/ \E t \in DOMAIN tasks, n \in 1..MaxBytes : ExecRead(t, n)
    \/ \E t \in DOMAIN tasks : ExecEof(t)
    \/ \E t \in DOMAIN tasks : \E reason \in FailReasons(tasks[t].pc) : ExecFail(t, reason)
    \/ \E t \in DOMAIN tasks : ExecProgress(t)
    \/ \E t \in DOMAIN tasks : ExecAborted(t)

Spec == Init /\ [][Next]_vars

\* Concurrent offer tasks on one connection whose stream stays up.
TransferServers == {"net1"}

NextTransfer ==
    \/ \E server \in TransferServers, r \in Requests :
          request_download(server, r.file_name, r.nick, r.command)
    \/ \E id \in 0..MaxDownloads : AbortDownload(id)
    \/ \E server \in TransferServers, channel \in Channels, prefix \in Prefixes, msg \in OfferTexts :
          Len(tasks) < MaxTasks /\ RecvPrivmsg(server, channel, prefix, msg)
    \/ \E t \in DOMAIN tasks : OfferTaskRun(t)
    \/ \E t \in DOMAIN tasks : ExecStart(t)
    \/ \E t \in DOMAIN tasks, ip \in PeerIps : ExecAccept(t, ip)
    \/ \E t \in DOMAIN tasks : ExecConnect(t)
    \/ \E t \in DOMAIN tasks : ExecHandshake(t)
    \/ \E t \in DOMAIN tasks, n \in 1..MaxBytes : ExecRead(t, n)
    \/ \E t \in DOMAIN tasks : ExecEof(t)
    \/ \E t \in DOMAIN tasks : \E reason \in FailReasons(tasks[t].pc) : ExecFail(t, reason)
    \/ \E t \in DOMAIN tasks : ExecProgress(t)
    \/ \E t \in DOMAIN tasks : ExecAborted(t)

SpecTransfer == Init /\ [][NextTransfer]_vars

\* Throttling and the retry timers, with peers that never connect.
RetryOffers == {m \in OfferTexts : m.filename = Some("f1")}

NextRetry ==
    \/ \E server \in Servers \cup {"net9"}, r \in Requests :
          request_download(server, r.file_name, r.nick, r.command)
    \/ \E id \in 0..MaxDownloads : AbortDownload(id)
    \/ \E server \in Servers, channel \in Channels, prefix \in Prefixes, msg \in RetryOffers :
          Len(tasks) < MaxSoloTasks /\ RecvPrivmsg(server, channel, prefix, msg)
    \/ \E server \in Servers, nick \in EventNicks : RecvNoSuchNick(server, nick)
    \/ \E server \in Servers : Len(timers) < MaxTimers /\ RecvThrottle(server)
    \/ \E server \in Servers : StreamEnd(server)
    \/ \E k \in DOMAIN timers : TimerFire(k)
    \/ Tick
    \/ \E t \in DOMAIN tasks : OfferTaskRun(t)
    \/ \E t \in DOMAIN tasks : ExecStart(t)
    \/ \E t \in DOMAIN tasks : \E reason \in FailReasons(tasks[t].pc) : ExecFail(t, reason)

SpecRetry == Init /\ [][NextRetry]_vars

\* The offer parser on the chat texts of ParseTexts.
NextParse ==
    \/ \E server \in TransferServers, r \in Requests :
          request_download(server, r.file_name, r.nick, r.command)
    \/ \E server \in TransferServers, channel \in Channels, prefix \in Prefixes, msg \in ParseTexts :
          Len(tasks) < MaxTasks /\ RecvPrivmsg(server, channel, prefix, msg)
    \/ \E t \in DOMAIN tasks : OfferTaskRun(t)

SpecParse == Init /\ [][NextParse]_vars

\* Both connections hold a request for the same file from the same nick; one
\* passive offer, the throttle signal and its timer, the no-such-nick event.
CrossRequests == {r \in Requests : r.file_name = "f1"}
CrossOffers == {m \in OfferTexts : m.filename = Some("f1") /\ IsSome(m.filesize)}
CrossNicks == {NickBotSquare}

NextCross ==
    \/ \E server \in Servers, r \in CrossRequests :
          request_download(server, r.file_name, r.nick, r.command)
    \/ \E server \in Servers, channel \in Channels, prefix \in Prefixes, msg \in CrossOffers :
          Len(tasks) < MaxSoloTasks /\ RecvPrivmsg(server, channel, prefix, msg)
    \/ \E server \in Servers, nick \in CrossNicks : RecvNoSuchNick(server, nick)
    \/ \E server \in Servers : Len(timers) < MaxTimers /\ RecvThrottle(server)
    \/ \E k \in DOMAIN timers : TimerFire(k)
    \/ Tick
    \/ \E t \in DOMAIN tasks : OfferTaskRun(t)
    \/ \E t \in DOMAIN tasks : ExecStart(t)
    \/ \E t \in DOMAIN tasks, ip \in PeerIps : ExecAccept(t, ip)
    \/ \E t \in DOMAIN tasks : ExecHandshake(t)
    \/ \E t \in DOMAIN tasks, n \in 1..MaxBytes : ExecRead(t, n)
    \/ \E t \in DOMAIN tasks : ExecEof(t)
    \/ \E t \in DOMAIN tasks : \E reason \in FailReasons(tasks[t].pc) : ExecFail(t, reason)
    \/ \E t \in DOMAIN tasks : ExecProgress(t)

SpecCross == Init /\ [][NextCross]_vars


\* ------------------------------------------------------------------ claims
TaskIds == DOMAIN tasks
DownloadIds == 0..(MaxDownloads - 1)

\* the live executors bound to download id of connection s
ExecutorsOf(s, id) ==
    {t \in TaskIds : Live(t) /\ tasks[t].server = s /\ tasks[t].download_id = Some(id)}

\* id was allocated and is in no registry any more
Removed(id) == id < download_id /\ \A s \in Servers : id \notin DOMAIN downloads[s]

\* id was removed and no executor completed it: it was aborted
Aborted(id) ==
    /\ Removed(id)
    /\ ~\E t \in TaskIds : tasks[t].download_id = Some(id) /\ tasks[t].pc = "completed"

\* C1: for every Download at most one transfer executor is active at any
\* moment; an offer that matches a Download whose executor is running
\* (Connecting or Progress) starts no second executor.
C1_OneExecutorPerDownload ==
    \A s \in Servers, id \in DownloadIds : Cardinality(ExecutorsOf(s, id)) <= 1

\* C2: after the abort of a Download that was Connecting or in Progress, its
\* executor has terminated or has been signalled to cancel.
C2_AbortSignalsExecutor ==
    \A t \in TaskIds :
        (Live(t) /\ Aborted(Unwrap(tasks[t].download_id))) => tasks[t].aborted


ErrorReasons ==
    {"Address already in use", "channel closed", "IP mismatch on connected client",
     "deadline has elapsed", "Permission denied", "Connection reset by peer"}

\* C3: a transfer error of a Download's executor (timeout, peer-address
\* mismatch, socket or file I/O error) sets that Download's status to
\* Failed(reason) and changes nothing else: every other Download, on the same
\* and on the other connections, keeps its status, and the control loop keeps
\* running.  (An executor whose Download is no longer in the registry panics
\* on its error instead and changes no registry.)
C3_TransferErrorIsolated ==
    [][\A t \in DOMAIN tasks :
          LET s == tasks[t].server
              id == Unwrap(tasks[t].download_id)
          IN /\ (Live(t) /\ tasks'[t].pc = "failed") =>
                   /\ id \in DOMAIN downloads[s]
                   /\ downloads'[s][id].status.kind = "Failed"
                   /\ downloads'[s][id].status.reason \in ErrorReasons
                   /\ downloads' = [downloads EXCEPT ![s][id].status = downloads'[s][id].status]
                   /\ running'
                   /\ \A u \in DOMAIN tasks \ {t} : tasks'[u] = tasks[u]
                   /\ UNCHANGED <<download_id, timers, sent, now, connUp, lastBytes>>
             /\ (Live(t) /\ tasks'[t].pc = "panicked") =>
                   /\ downloads' = downloads
                   /\ running'
      ]_vars

\* an executor has failed, its Download is Failed, and a Download of the other
\* connection is still as requested
C3_Witness ==
    \E t \in TaskIds :
        /\ tasks[t].pc = "failed"
        /\ Unwrap(tasks[t].download_id) \in DOMAIN downloads[tasks[t].server]
        /\ downloads[tasks[t].server][Unwrap(tasks[t].download_id)].status.kind = "Failed"
        /\ \E s \in Servers \ {tasks[t].server} : \E i \in DOMAIN downloads[s] :
              downloads[s][i].status = Requested
        /\ running


\* C4: once a Download is Failed(reason) it stays Failed with that reason
\* until an abort removes it: no offer, no-such-nick event, throttle event or
\* timer changes it.
C4_FailedIsTerminal ==
    [][\A s \in Servers : \A i \in DOMAIN downloads[s] :
          downloads[s][i].status.kind = "Failed" =>
              \/ i \notin DOMAIN downloads'[s]
              \/ downloads'[s][i].status = downloads[s][i].status
      ]_vars

\* the steps C5 is about
ThrottleStep(s) ==
    /\ Len(timers') = Len(timers) + 1
    /\ timers'[Len(timers')].server = s

TimerFires(k) == timers[k].pc = "sleeping" /\ timers'[k].pc # "sleeping"

Deadline(s) == connected_at[s] + RetryDelaySecs

\* the resend of download i's request by timer k
Resent(log, k, s, i, item) ==
    \E m \in log :
        /\ m.kind = "retry" /\ m.by = k /\ m.id = i /\ m.server = s
        /\ m.to = item.nick
        /\ m.text = item.request_command
        /\ m.at >= Deadline(s)

\* a throttle signal moves exactly the Requested downloads of its connection to
\* Delayed(connected_at + 70 s); request commands and peer nicks never change;
\* no request is resent before the deadline
ThrottleEffect ==
    /\ \A s \in Servers :
          ThrottleStep(s) =>
              /\ timers'[Len(timers')].retry_at = Deadline(s)
              /\ DOMAIN downloads'[s] = DOMAIN downloads[s]
              /\ \A i \in DOMAIN downloads[s] :
                    downloads'[s][i] =
                        IF downloads[s][i].status = Requested
                        THEN [downloads[s][i] EXCEPT !.status = Delayed(Deadline(s))]
                        ELSE downloads[s][i]
              /\ \A o \in Servers \ {s} : downloads'[o] = downloads[o]
    /\ \A s \in Servers : \A i \in DOMAIN downloads[s] \cap DOMAIN downloads'[s] :
          /\ downloads'[s][i].nick = downloads[s][i].nick
          /\ downloads'[s][i].request_command = downloads[s][i].request_command
    /\ \A m \in sent' \ sent : m.kind = "retry" => now >= Deadline(m.server)

IrcFold(b) ==
    CASE b >= 65 /\ b <= 90 -> b + 32
      [] b = 91 -> 123
      [] b = 93 -> 125
      [] b = 92 -> 124
      [] OTHER -> b

IrcEquivalent(a, b) ==
    /\ Len(a) = Len(b)
    /\ \A i \in 1..Len(a) : IrcFold(a[i]) = IrcFold(b[i])

IrcBytes == {66, 98, 91, 123, 92, 124, 94, 126}
NickUniverse == {<<b>> : b \in IrcBytes} \cup {<<a, b>> : a, b \in IrcBytes}

\* the registry a no-such-nick event for X has to leave behind
SenderGone(reg, X) ==
    [i \in DOMAIN reg |->
        IF IrcEquivalent(reg[i].nick, X)
        THEN [reg[i] EXCEPT !.status = SenderAbsent]
        ELSE reg[i]]

\* the code's comparison and the protocol's equivalence agree on every pair of
\* nicks of the universe
CaseAgreement ==
    \A a, b \in NickUniverse : eq_ignore_irc_case(a, b) = IrcEquivalent(a, b)

\* C6: a no-such-nick event for nick X on a connection sets SenderAbsent on
\* every Download of that connection whose peer nick equals X under IRC case
\* equivalence and leaves every other Download, there and on the other
\* connections, unchanged.
C6_SenderGoneByIrcCase ==
    [][/\ CaseAgreement
       /\ \A s \in Servers, X \in EventNicks :
             RecvNoSuchNick(s, X) =>
                 /\ downloads'[s] = SenderGone(downloads[s], X)
                 /\ \A o \in Servers \ {s} : downloads'[o] = downloads[o]
      ]_vars

\* the event "b[" has marked the download from "B{" absent and left the
\* download from "b^" on the same connection Requested
C6_Witness ==
    \E s \in Servers : \E i, j \in DOMAIN downloads[s] :
        /\ downloads[s][i].nick = NickBotCurly
        /\ downloads[s][i].status = SenderAbsent
        /\ downloads[s][j].nick = NickCaret
        /\ downloads[s][j].status = Requested

\* C7: the byte counts of the successive Progress statuses of a Download never
\* decrease.
C7_ProgressMonotonic ==
    [][\A i \in DownloadIds : lastBytes'[i] >= lastBytes[i]]_vars

\* C8: the acknowledgment an executor writes before it reads the payload is the
\* 8-byte big-endian zero, and every executor that reaches the payload has
\* written it, whatever size the offer declares or omits.
C8_AckIsZero ==
    \A t \in TaskIds :
        /\ IsSome(tasks[t].ack) => Unwrap(tasks[t].ack) = Zeros(USizeBytes)
        /\ tasks[t].pc = "streaming" => IsSome(tasks[t].ack)

\* the offers the peers send, and the decimal texts a reply has to carry
Offers == {Unwrap(ParsedOffer[m]) : m \in {x \in OfferTexts : IsSome(ParsedOffer[x])}}
MyIpText == to_string(U32FromIpv4(MyIp))
SizeText ==
    [d \in Offers |-> IF IsSome(d.file_size) THEN to_string(Unwrap(d.file_size)) ELSE << >>]
IdText == [d \in Offers |-> IF IsSome(d.id) THEN to_string(Unwrap(d.id)) ELSE << >>]

\* the reply offers task t has sent
RepliesOf(t) == {m \in sent : m.kind = "reply" /\ m.by = t}

\* a passive executor that waits for, or has got, a connection has sent its one
\* reply offer
ReplySent(t) ==
    /\ tasks[t].replies = 1
    /\ Cardinality(RepliesOf(t)) = 1
    /\ \A m \in RepliesOf(t) :
          /\ m.server = tasks[t].server
          /\ m.to = tasks[t].nick
          /\ m.text = <<MarkerUpper, tasks[t].dcc_send.file_name, MyIpText, BoundPort(t),
                        SizeText[tasks[t].dcc_send], IdText[tasks[t].dcc_send]>>

\* the connection task t got came from another address than the offer declares
WrongPeer(t) ==
    /\ IsSome(tasks[t].peer)
    /\ Unwrap(tasks[t].peer) # tasks[t].dcc_send.address.ip

\* C9: a passive executor sends exactly one reply offer (local public IP, bound
\* port, the offer's size and id) to the peer before it accepts a connection;
\* when the accepted connection comes from another IP than the offer declares,
\* the transfer fails, its Download becomes Failed, and no payload byte is read
\* or written.
C9_PassiveReplyAndPeerCheck ==
    [][\A t \in DOMAIN tasks' :
          is_passive(tasks'[t].dcc_send) =>
              /\ tasks'[t].replies <= 1
              /\ Cardinality({m \in sent' : m.kind = "reply" /\ m.by = t}) = tasks'[t].replies
              /\ (tasks'[t].pc = "accepting" \/ IsSome(tasks'[t].peer)) =>
                    /\ t \in DOMAIN tasks
                    /\ (tasks[t].pc = "negotiate" \/ ReplySent(t))
                    /\ ReplySent(t)'
              /\ WrongPeer(t)' =>
                    /\ tasks'[t].pc \in {"failed", "panicked"}
                    /\ tasks'[t].transferred = 0
                    /\ tasks'[t].ack = None
                    /\ (~WrongPeer(t) /\ Unwrap(tasks[t].download_id) \in DOMAIN downloads[tasks[t].server]) =>
                          /\ tasks'[t].pc = "failed"
                          /\ downloads'[tasks[t].server][Unwrap(tasks[t].download_id)].status =
                                 Failed("IP mismatch on connected client")
      ]_vars

\* a passive executor sent its reply offer, accepted a connection from another
\* address than the offer's, and its Download is Failed for it
C9_Witness ==
    \E t \in TaskIds :
        /\ is_passive(tasks[t].dcc_send)
        /\ WrongPeer(t)
        /\ ReplySent(t)
        /\ tasks[t].pc = "failed"
        /\ \E i \in DOMAIN downloads[tasks[t].server] :
              /\ tasks[t].download_id = Some(i)
              /\ downloads[tasks[t].server][i].status = Failed("IP mismatch on connected client")

\* id is in no registry
InNoRegistry(id) == \A s \in Servers : id \notin DOMAIN downloads[s]

\* C10: aborting an id that is in no registry changes no registry and cancels
\* no executor, and aborting an id twice leaves the state the first abort left.
C10_AbortIdempotent ==
    \A id \in 0..MaxDownloads :
        LET once == abort_download(downloads, tasks, id)
            twice == abort_download(once.downloads, once.tasks, id)
        IN /\ InNoRegistry(id) => once = [downloads |-> downloads, tasks |-> tasks]
           /\ twice = once

\* a Download was aborted while Connecting: it is in no registry and its
\* executor is still live and not cancelled
C10_Witness ==
    \E t \in TaskIds :
        /\ Live(t)
        /\ ~tasks[t].aborted
        /\ Aborted(Unwrap(tasks[t].download_id))

\* the ids the registries hold
LiveIds == UNION {DOMAIN downloads[s] : s \in Servers}

\* C11: DownloadIds are unique and never reused: every Download a request inserts
\* gets the counter's value, which is greater than every id allocated before it,
\* the counter never goes back, and no two Downloads share an id.
C11_IdsUniqueNeverReused ==
    [][/\ download_id' >= download_id
       /\ \A i \in LiveIds : i < download_id
       /\ \A s1, s2 \in Servers : s1 # s2 => DOMAIN downloads[s1] \cap DOMAIN downloads[s2] = {}
       /\ \A s \in Servers : \A i \in DOMAIN downloads[s] :
             downloads[s][i].id = i /\ downloads[s][i].server = s
       /\ \A s \in Servers : \A i \in DOMAIN downloads'[s] \ DOMAIN downloads[s] :
             /\ i = download_id
             /\ download_id' = i + 1
             /\ \A j \in LiveIds : j < i
             /\ LiveIds' = LiveIds \cup {i}
      ]_vars

\* two requests got ids 0 and 1, download 0 was
\* removed, and the counter stands at 2
C11_Witness ==
    /\ download_id = 2
    /\ LiveIds = {1}
    /\ Removed(0)
    /\ \E s \in Servers : 1 \in DOMAIN downloads[s] /\ downloads[s][1].status = Requested

\* the step is one of task t itself (an abort only raises its aborted flag)
TaskStep(t) ==
    /\ t \in DOMAIN tasks
    /\ tasks'[t] # tasks[t]
    /\ tasks'[t].aborted = tasks[t].aborted

\* the downloads whose entry a step changes, inserts or removes
Touched(s) ==
    {i \in DOMAIN downloads[s] \cup DOMAIN downloads'[s] :
        \/ i \notin DOMAIN downloads[s]
        \/ i \notin DOMAIN downloads'[s]
        \/ downloads'[s][i] # downloads[s][i]}

\* C12: an offer changes the status of at most the one Download of its
\* connection whose file name equals the offer's: the offer task moves that one
\* to Connecting and binds its executor to it, every other Download keeps its
\* status, and no executor is bound to a Download with another file name.
C12_OfferTouchesOnlyItsDownload ==
    [][\A t \in DOMAIN tasks :
          LET task == tasks[t]
              s == task.server
          IN /\ (TaskStep(t) /\ task.pc = "spawned") =>
                   /\ \A o \in Servers \ {s} : Touched(o) = {}
                   /\ Cardinality(Touched(s)) <= 1
                   /\ \A i \in Touched(s) :
                         /\ i \in DOMAIN downloads[s] \cap DOMAIN downloads'[s]
                         /\ downloads[s][i].file_name = task.dcc_send.file_name
                         /\ downloads'[s][i] = [downloads[s][i] EXCEPT !.status = Connecting]
                         /\ tasks'[t].download_id = Some(i)
                   /\ IsSome(tasks'[t].download_id) =>
                         /\ tasks'[t].pc = "negotiate"
                         /\ Touched(s) = {Unwrap(tasks'[t].download_id)}
                   /\ ~IsSome(tasks'[t].download_id) => tasks'[t].pc \in {"panicked", "returned"}
             /\ (TaskStep(t) /\ task.pc # "spawned") =>
                   /\ \A o \in Servers \ {s} : Touched(o) = {}
                   /\ Touched(s) \subseteq {Unwrap(task.download_id)}
      ]_vars

\* of two Requested downloads f1 and f2 on one connection, an offer for f2 has
\* moved the second to Connecting; the first is still Requested and has no executor
C12_Witness ==
    \E s \in Servers : \E t \in TaskIds :
        /\ {0, 1} \subseteq DOMAIN downloads[s]
        /\ downloads[s][0].file_name = "f1" /\ downloads[s][0].status = Requested
        /\ downloads[s][1].file_name = "f2" /\ downloads[s][1].status = Connecting
        /\ tasks[t].dcc_send.file_name = "f2"
        /\ tasks[t].download_id = Some(1)
        /\ tasks[t].pc = "negotiate"
        /\ ExecutorsOf(s, 0) = {}

\* decimal arithmetic on digit sequences, least significant digit first:
\* d * mul + carry
RECURSIVE DecMulAdd(_, _, _, _)
DecMulAdd(d, i, mul, carry) ==
    IF i > Len(d)
    THEN IF carry = 0 THEN d ELSE DecMulAdd(Append(d, 0), i, mul, carry)
    ELSE LET x == d[i] * mul + carry
         IN DecMulAdd([d EXCEPT ![i] = x % 10], i + 1, mul, x \div 10)

RECURSIVE DecimalFrom(_, _, _)
DecimalFrom(bytes, k, acc) ==
    IF k > Len(bytes) THEN acc
    ELSE DecimalFrom(bytes, k + 1, DecMulAdd(acc, 1, 256, bytes[k]))

Reverse(q) == [i \in 1..Len(q) |-> q[Len(q) + 1 - i]]

\* the decimal text of the number whose base-256 digits, most significant
\* first, are bytes: ((b1 * 256 + b2) * 256 + b3) * 256 + ...
DecimalOf(bytes) == Reverse(DecimalFrom(bytes, 1, <<0>>))

\* a decimal text without its leading zeros
RECURSIVE StripZeros(_)
StripZeros(text) ==
    IF Len(text) > 1 /\ text[1] = 0 THEN StripZeros(Tail(text)) ELSE text

\* a <= b for decimal texts without leading zeros
RECURSIVE DecLeqFrom(_, _, _)
DecLeqFrom(a, b, k) ==
    IF k > Len(a) THEN TRUE
    ELSE IF a[k] # b[k] THEN a[k] < b[k]
    ELSE DecLeqFrom(a, b, k + 1)

DecLeq(x, y) ==
    LET a == StripZeros(x)
        b == StripZeros(y)
    IN Len(a) < Len(b) \/ (Len(a) = Len(b) /\ DecLeqFrom(a, b, 1))

\* the value of a short decimal text
RECURSIVE DecValueFrom(_, _, _)
DecValueFrom(text, k, acc) ==
    IF k > Len(text) THEN acc ELSE DecValueFrom(text, k + 1, acc * 10 + text[k])

DecValue(text) == DecValueFrom(text, 1, 0)

DccSendSpellings == {MarkerUpper, MarkerLower, MarkerMixed}

\* the text is an offer: marker, file name, address within u32, port within u16
IsOffer(m) ==
    /\ m.marker \in DccSendSpellings
    /\ IsSome(m.filename) /\ IsSome(m.address) /\ IsSome(m.port)
    /\ DecLeq(Unwrap(m.address), Text4294967295)
    /\ DecLeq(Unwrap(m.port), Text65535)

\* an optional usize field of the offer carries the text's number, or is
\* absent when the text is missing or exceeds usize
OptionalField(text, field) ==
    IF IsSome(text) /\ DecLeq(Unwrap(text), Text18446744073709551615)
    THEN IsSome(field) /\ DecimalOf(Reverse(Unwrap(field))) = StripZeros(Unwrap(text))
    ELSE field = None

\* r is what the parser has to return for the chat text m
ParsesAs(m, r) ==
    IF IsOffer(m)
    THEN /\ IsSome(r)
         /\ Unwrap(r).file_name = Unwrap(m.filename)
         /\ Len(Unwrap(r).address.ip) = 4
         /\ \A i \in 1..4 : Unwrap(r).address.ip[i] \in 0..255
         /\ DecimalOf(Unwrap(r).address.ip) = StripZeros(Unwrap(m.address))
         /\ Unwrap(r).address.port = DecValue(Unwrap(m.port))
         /\ OptionalField(m.filesize, Unwrap(r).file_size)
         /\ OptionalField(m.id, Unwrap(r).id)
    ELSE r = None

\* the example of the tests: 1226420238 is 73.25.176.14, port 0, size
\* 3498348389, id 22
ParseExample ==
    LET r == from_str(ChatText(MarkerUpper, Some("f1"), Some(AddrPeer), Some(<<0>>),
                               Some(Size3498348389), Some(<<2, 2>>)))
    IN /\ IsSome(r)
       /\ Unwrap(r).address = [ip |-> <<73, 25, 176, 14>>, port |-> 0]
       /\ DecimalOf(Reverse(Unwrap(Unwrap(r).file_size))) = Size3498348389
       /\ DecimalOf(Reverse(Unwrap(Unwrap(r).id))) = <<2, 2>>

ParseAgreement == \A m \in ParseTexts : ParsesAs(m, from_str(m))

\* C13: the offer parser returns an offer for every text with the marker in any
\* case, a file name, an address up to 2^32-1 and a port up to 65535, with the
\* address read as its four big-endian octets; it returns none when a field is
\* missing or out of range; a size or id that does not parse is absent.  The
\* control loop spawns an offer task with that offer, or none.
C13_OfferParser ==
    [][/\ ParseExample
       /\ ParseAgreement
       /\ \A s \in Servers, ch \in Channels, p \in Prefixes, m \in ParseTexts :
             RecvPrivmsg(s, ch, p, m) =>
                 IF IsSome(p) /\ IsOffer(m)
                 THEN /\ Len(tasks') = Len(tasks) + 1
                      /\ ParsesAs(m, Some(tasks'[Len(tasks')].dcc_send))
                 ELSE tasks' = tasks
      ]_vars

\* offers at the limits were parsed: 255.255.255.255 port 65535 with size 0,
\* and one whose id exceeds usize and is absent while its size is the largest usize
C13_Witness ==
    \E t, u \in TaskIds :
        /\ tasks[t].dcc_send.address = [ip |-> <<255, 255, 255, 255>>, port |-> 65535]
        /\ tasks[t].dcc_send.file_size = Some(Zeros(USizeBytes))
        /\ tasks[u].dcc_send.address = [ip |-> <<0, 0, 0, 0>>, port |-> 256]
        /\ tasks[u].dcc_send.file_size = Some([i \in 1..USizeBytes |-> 255])
        /\ tasks[u].dcc_send.id = None

\* C14: a Download that is Connecting or in Progress has a running executor
\* that will end it as removed or Failed: none stays in an executing state
\* after its executor task has ended, whether or not the offer declared a size.
C14_ExecutingHasExecutor ==
    \A s \in Servers : \A i \in DOMAIN downloads[s] :
        downloads[s][i].status.kind \in {"Connecting", "Progress"} => ExecutorsOf(s, i) # {}

\* the message targets that are channels
ChannelTargets == {"#chan"}

\* C15: a message whose target is a channel spawns no offer task (and so
\* changes no Download), even when its text is a well-formed offer.
C15_ChannelOffersIgnored ==
    [][\A s \in Servers, ch \in ChannelTargets, p \in Prefixes, m \in OfferTexts :
          RecvPrivmsg(s, ch, p, m) => UNCHANGED <<tasks, downloads>>
      ]_vars

\* C16: when the retry timer fires and resends the request of a Delayed
\* Download, that Download is Requested again.
C16_ResentIsRequested ==
    [][\A k \in DOMAIN timers :
          TimerFires(k) =>
              LET s == timers[k].server
              IN \A i \in DOMAIN downloads[s] :
                    (/\ downloads[s][i].status.kind = "Delayed"
                     /\ Resent(sent', k, s, i, downloads[s][i]))
                    => /\ i \in DOMAIN downloads'[s]
                       /\ downloads'[s][i].status = Requested
      ]_vars

\* C17: the retry timer resends the request of exactly the Downloads of its
\* connection that are Requested or Delayed when it fires, and of no other.
C17_ResendsOnlyPending ==
    [][\A k \in DOMAIN timers :
          (TimerFires(k) /\ connUp[timers[k].server]) =>
              LET s == timers[k].server
              IN \A i \in 0..MaxDownloads :
                    (\E m \in sent' \ sent : m.kind = "retry" /\ m.by = k /\ m.id = i)
                    <=> /\ i \in DOMAIN downloads[s]
                        /\ downloads[s][i].status.kind \in {"Requested", "Delayed"}
      ]_vars

\* C18: a Download becomes SenderAbsent only from Requested, Connecting or
\* Delayed, never from Progress or Failed.
C18_SenderAbsentOnlyFromPending ==
    [][\A s \in Servers : \A i \in DOMAIN downloads[s] \cap DOMAIN downloads'[s] :
          (downloads'[s][i].status = SenderAbsent /\ downloads[s][i].status # SenderAbsent)
          => downloads[s][i].status.kind \in {"Requested", "Connecting", "Delayed"}
      ]_vars

\* an offer task of connection s has been spawned and has still to make its
\* change to the registry
PendingOffer(s) ==
    \E t \in TaskIds :
        /\ tasks[t].server = s
        /\ tasks[t].pc = "spawned"
        /\ \E i \in DOMAIN downloads[s] :
              /\ downloads[s][i].file_name = tasks[t].dcc_send.file_name
              /\ ~AlreadyRunning(downloads[s][i].status)

\* C19: the registry changes of the messages of one connection happen in
\* arrival order: when a no-such-nick event changes the registry, every offer
\* that arrived before it on that connection has made its change.
C19_ArrivalOrder ==
    [][\A s \in Servers, X \in EventNicks :
          (RecvNoSuchNick(s, X) /\ downloads' # downloads) => ~PendingOffer(s)
      ]_vars

\* the chat messages a step sends on connection s
NewlySent(s) == {m \in sent' \ sent : m.server = s}

\* the step leaves every connection but s alone
OnlyOn(s) ==
    \A o \in Servers \ {s} : downloads'[o] = downloads[o] /\ NewlySent(o) = {}

\* C20: an offer, an executor's progress, completion or failure, a throttle
\* signal, a retry timer or a no-such-nick event of one connection leaves the
\* Downloads of every other connection unchanged and sends nothing there.
C20_ConnectionsIsolated ==
    [][/\ \A s \in Servers, ch \in Channels, p \in Prefixes, m \in CrossOffers :
             RecvPrivmsg(s, ch, p, m) => OnlyOn(s)
       /\ \A s \in Servers, X \in CrossNicks : RecvNoSuchNick(s, X) => OnlyOn(s)
       /\ \A s \in Servers : RecvThrottle(s) => OnlyOn(s)
       /\ \A k \in DOMAIN timers : TimerFires(k) => OnlyOn(timers[k].server)
       /\ \A t \in DOMAIN tasks : TaskStep(t) => OnlyOn(tasks[t].server)
      ]_vars

\* both connections hold a Download of f1 from the same nick; the events of
\* net1 (throttle, timer, offer, failed executor) have marked net1's Download
\* and resent its request, and net2's is still Requested with nothing resent
C20_Witness ==
    \E i \in DOMAIN downloads["net1"], j \in DOMAIN downloads["net2"] :
        /\ downloads["net1"][i].file_name = downloads["net2"][j].file_name
        /\ downloads["net1"][i].nick = downloads["net2"][j].nick
        /\ downloads["net1"][i].status.kind = "Failed"
        /\ downloads["net2"][j].status = Requested
        /\ \E m \in sent : m.kind = "retry" /\ m.server = "net1" /\ m.id = i
        /\ \E m \in sent : m.kind = "reply" /\ m.server = "net1"
        /\ ~\E m \in sent : m.server = "net2" /\ m.kind # "request"

\* the Downloads of connection s that are waiting for their peer's offer
PendingIds(s) ==
    {i \in DOMAIN downloads[s] : downloads[s][i].status.kind \in {"Requested", "Delayed"}}

\* the retry timer k ends on a send that failed
ResendFails(k) == TimerFires(k) /\ timers'[k].pc = "failed"

\* C21: when a resend of the retry timer fails, the control loop keeps running,
\* no Download's status changes, and the requests of the other pending
\* Downloads of that connection (all but the one whose send failed) are still
\* resent.
C21_ResendFailureConfined ==
    [][\A k \in DOMAIN timers :
          ResendFails(k) =>
              LET s == timers[k].server
              IN /\ running' = running
                 /\ connUp' = connUp
                 /\ downloads' = downloads
                 /\ Cardinality({i \in PendingIds(s) :
                                   ~Resent(sent', k, s, i, downloads[s][i])}) <= 1
      ]_vars

\* the reply offers task t has sent according to a chat log
ReplyOffersBy(log, t) == {m \in log : m.kind = "reply" /\ m.by = t}

\* C22: the transfer mode follows from the offer's port alone.  With port 0 the
\* executor starts by listening and sending one reply offer (or fails before
\* it listens) and never connects out; with any other port it starts by
\* connecting out to the offer's address and never listens, accepts or sends
\* a reply offer.
C22_ModeByPortAlone ==
    [][\A t \in DOMAIN tasks :
          LET d == tasks[t].dcc_send
              passive == d.address.port = 0
          IN /\ ExecStart(t) =>
                   IF passive
                   THEN \/ /\ tasks'[t].pc = "accepting"
                           /\ Listening(BoundPort(t))'
                           /\ Cardinality(ReplyOffersBy(sent', t)) = 1
                           /\ \A m \in ReplyOffersBy(sent', t) :
                                 m.to = tasks[t].nick /\ m.text[4] = BoundPort(t)
                        \/ /\ tasks'[t].pc \in {"failed", "panicked"}
                           /\ sent' = sent
                   ELSE /\ tasks'[t].pc = "connecting"
                        /\ sent' = sent
             /\ tasks'[t].pc = "connecting" => ~passive
             /\ tasks'[t].pc = "accepting" => passive
             /\ ExecConnect(t) => ~passive /\ tasks'[t].peer = Some(d.address.ip)
             /\ \A ip \in PeerIps : ExecAccept(t, ip) => passive
             /\ ~passive => ReplyOffersBy(sent', t) = {} /\ tasks'[t].replies = 0
      ]_vars

\* two executors side by side: the one of a port-0 offer has sent its reply
\* offer and accepted its peer, the one of a port-4000 offer has connected out
\* and sent nothing
C22_Witness ==
    \E t, u \in DOMAIN tasks :
        /\ tasks[t].dcc_send.address.port = 0
        /\ tasks[t].pc = "connected"
        /\ tasks[t].replies = 1
        /\ ReplyOffersBy(sent, t) # {}
        /\ tasks[u].dcc_send.address.port = 4000
        /\ tasks[u].pc = "connected"
        /\ tasks[u].peer = Some(PeerIp)
        /\ ReplyOffersBy(sent, u) = {}

\* C23: a Download is moved to Connecting, and an executor bound to it, only
\* by an offer that its own peer nick sent (nicks compared as IRC compares
\* them): the offer of any other nick with the same file name leaves the
\* Download's status as it is.
C23_OnlyOwnPeerStartsTransfer ==
    [][\A t \in DOMAIN tasks :
          OfferTaskRun(t) =>
              LET s == tasks[t].server
              IN \A i \in DOMAIN downloads[s] :
                    (\/ downloads'[s][i].status # downloads[s][i].status
                     \/ tasks'[t].download_id = Some(i))
                    => eq_ignore_irc_case(downloads[s][i].nick, tasks[t].nick)
      ]_vars

\* the offer of task t names no Download of its connection when the task looks
\* for one
Unmatched(t) ==
    /\ tasks[t].pc = "spawned"
    /\ \A i \in DOMAIN downloads[tasks[t].server] :
          downloads[tasks[t].server][i].file_name # tasks[t].dcc_send.file_name

\* the task of an unmatched offer after its lookup: ended, bound to no Download
Dropped(t) == tasks[t].pc = "panicked" /\ tasks[t].download_id = None

\* C24: an offer whose file name matches no Download of the receiving
\* connection (when its task looks for one) changes no Download of any
\* connection, sends nothing and starts no executor, now or later, and the
\* control loop goes on handling the messages of that connection.
C24_UnmatchedOfferHasNoEffect ==
    [][\A t \in DOMAIN tasks :
          /\ (Unmatched(t) /\ TaskStep(t)) =>
                /\ downloads' = downloads
                /\ sent' = sent
                /\ download_id' = download_id
                /\ running' = running
                /\ connUp' = connUp
                /\ Dropped(t)'
          /\ Dropped(t) => tasks'[t] = tasks[t]
          /\ (Dropped(t) /\ running /\ connUp[tasks[t].server]) =>
                ENABLED RecvNoSuchNick(tasks[t].server, NickShort)
      ]_vars

\* net1 received an offer for f1 while it held only a Download of f2; net2
\* holds a Download of f1; the offer's task has ended and both are Requested
C24_Witness ==
    \E t \in DOMAIN tasks, i \in DOMAIN downloads["net1"], j \in DOMAIN downloads["net2"] :
        /\ Dropped(t)
        /\ tasks[t].server = "net1"
        /\ tasks[t].dcc_send.file_name = "f1"
        /\ downloads["net1"][i].file_name = "f2"
        /\ downloads["net2"][j].file_name = "f1"
        /\ downloads["net1"][i].status = Requested
        /\ downloads["net2"][j].status = Requested
        /\ running

\* request_download returns an error: the network id is unknown, or the
\* connection's client no longer takes messages
RequestFails(server) == server \notin Servers \/ ~connUp[server]

\* C25: a download request is all-or-nothing.  When request_download returns
\* an error no id is consumed and no entry is left in any registry; when it
\* succeeds exactly one Requested entry with the given network, file name, nick
\* and command is new, and the command was sent once.
C25_RequestAllOrNothing ==
    [][\A server \in Servers \cup {"net9"}, r \in Requests :
          request_download(server, r.file_name, r.nick, r.command) =>
              IF RequestFails(server)
              THEN /\ download_id' = download_id
                   /\ downloads' = downloads
                   /\ sent' = sent
              ELSE /\ Touched(server) = {download_id}
                   /\ downloads'[server][download_id] =
                         DownloadItem(download_id, server, r.file_name, r.nick,
                                      Requested, r.command)
                   /\ \A o \in Servers \ {server} : Touched(o) = {}
                   /\ Cardinality(sent' \ sent) = 1
                   /\ \A m \in sent' \ sent :
                         m.server = server /\ m.to = r.nick /\ m.text = r.command
      ]_vars

=============================================================================
